---- MODULE Spec2Model ----
(***************************************************************************)
(* Recipe API of recipe-app-api: the recipe, tag and ingredient endpoints  *)
(* (app/recipe/views.py) and the tag / ingredient reconciliation of the    *)
(* recipe serializer (app/recipe/serializers.py), over the three tables    *)
(* and the two many-to-many association tables of core.models.             *)
(*                                                                         *)
(* Every request is one action: the view's object lookup, the serializer's *)
(* create/update with each ORM statement it issues, and the response.  The *)
(* serializer opens no transaction, so the statements an aborted request   *)
(* issued before its exception stay in the database (autocommit).          *)
(*                                                                         *)
(* Spec           the routes called by authenticated clients, one request  *)
(*                at a time.                                               *)
(* SpecRecipes    recipe create and update alone.                          *)
(* SpecPublic     the routes called with and without a token.              *)
(* SpecConcurrent two workers running recipe create and update requests    *)
(*                side by side, one ORM statement per step.                *)
(* SpecWait       the wait_for_db command (core/management/commands)       *)
(*                beside a database server that comes and goes.            *)
(***************************************************************************)
EXTENDS Integers, Naturals, Sequences, FiniteSets, TLC

\* ------------------------------------------------------------- bounds
MaxRecipes == 2
MaxTagRows == 2
MaxIngredientRows == 1
\* The failed checks of one run of wait_for_db.
MaxChecks == 3

Users == {"u1", "u2"}
\* Catalog names in ascending order, as order_by('-name') compares them.
TagNames == <<"NonVeg", "Veg">>
IngredientNames == <<"Salt", "Sugar">>
NoUser == "none"
\* request.user of a request that carries no token.
AnonymousUser == "anonymous"
Callers == Users \cup {AnonymousUser}
NoTitle == ""

Range(s) == {s[i] : i \in DOMAIN s}
Rank(names, n) == CHOOSE i \in DOMAIN names : names[i] = n

VARIABLES
    Recipe,             \* rows of Recipe.objects: [id, user, title]
    Tag,                \* rows of Tag.objects: [id, user, name]
    Ingredient,         \* rows of Ingredient.objects: [id, user, name]
    recipe_tags,        \* rows of the Recipe.tags table: <<recipe id, tag id>>
    recipe_ingredients, \* rows of the Recipe.ingredients table
    recipeSeq, tagSeq, ingredientSeq,   \* next primary key of each table
    request,            \* the request being answered
    res,                \* its response
    workers,            \* the requests two server workers run side by side
    pc,                 \* wait_for_db: the statement handle() is at
    is_db_available,    \* wait_for_db: the local of handle()
    stdout,             \* wait_for_db: the lines written so far
    database,           \* the state of the database server
    checks              \* wait_for_db: the outcome of every self.check() so far

\* The state of the wait_for_db command and of the server it waits for.
command == <<pc, is_db_available, stdout, database, checks>>

vars == <<Recipe, Tag, Ingredient, recipe_tags, recipe_ingredients,
          recipeSeq, tagSeq, ingredientSeq, request, res, workers, command>>

db == <<Recipe, Tag, Ingredient, recipe_tags, recipe_ingredients,
        recipeSeq, tagSeq, ingredientSeq>>

\* ------------------------------------------------------- request data
\* A nested list field of a payload: absent, or a list of {'name': n}.
Absent == [present |-> FALSE, names |-> <<>>]
Given(names) == [present |-> TRUE, names |-> names]

\* The lists requests carry in their tags field: empty, one name, two names,
\* one name twice; and in their ingredients field.
TagLists == {<<>>, <<"Veg">>, <<"NonVeg">>, <<"Veg", "NonVeg">>, <<"Veg", "Veg">>}
IngredientLists == {<<>>, <<"Salt">>, <<"Sugar">>}

\* The tags and ingredients fields of a payload: neither, one of them, both.
ListFields ==
    {<<Absent, Absent>>}
    \cup {<<Given(t), Absent>> : t \in TagLists}
    \cup {<<Absent, Given(i)>> : i \in IngredientLists}
    \cup {<<Given(t), Given(i)>> : t \in {<<>>, <<"Veg">>}, i \in {<<>>, <<"Salt">>}}

\* POST /recipes payloads: the fields a test sends, and some with an extra
\* 'user' key naming another account.
CreatePayloads ==
    {[title |-> "Test Recipe", tags |-> f[1], ingredients |-> f[2],
      user |-> NoUser] : f \in ListFields}
    \cup {[title |-> "Test Recipe", tags |-> t, ingredients |-> Absent,
           user |-> "u2"] : t \in {Absent, Given(<<"Veg">>)}}

\* PUT/PATCH /recipes/{pk} payloads: a PATCH of the list fields alone, a new
\* title with or without them, and an extra 'user' key.
UpdatePayloads ==
    {[title |-> NoTitle, tags |-> f[1], ingredients |-> f[2],
      user |-> NoUser] : f \in ListFields}
    \cup {[title |-> "Updated Title", tags |-> f[1], ingredients |-> f[2],
           user |-> NoUser] :
              f \in {<<Absent, Absent>>, <<Given(<<"Veg">>), Absent>>,
                     <<Absent, Given(<<"Salt">>)>>}}
    \cup {[title |-> t, tags |-> Absent, ingredients |-> Absent,
           user |-> "u2"] : t \in {NoTitle, "Updated Title"}}

\* A request in flight: the view action, the authenticated caller, the pk of
\* the URL (0 for none) and the payload.  Idle between two requests: the test
\* client sends the next request once it holds the response.
NoData == [title |-> NoTitle, tags |-> Absent, ingredients |-> Absent,
           user |-> NoUser]
Req(action, user, pk, data) ==
    [action |-> action, user |-> user, pk |-> pk, data |-> data]
Idle == Req("none", NoUser, 0, NoData)

Response(status_code, data) == [status_code |-> status_code, data |-> data]

\* ---------------------------------------------------------- permissions
\* Mutant: permission_classes = [AllowAny].
has_permission_allow_any(user) == TRUE

\* permission_classes = [IsAuthenticated] behind TokenAuthentication: the
\* request passes when its token named a user.
has_permission(user) == user \in Users

\* ------------------------------------------------------------ queries
\* Mutants: the queryset without its filter(user=self.request.user).
RecipeQueryset_unfiltered(user) == Recipe
TagQueryset_unfiltered(user) == Tag

\* get_queryset: the caller's rows only.
RecipeQueryset(user) == {r \in Recipe : r.user = user}
TagQueryset(user) == {t \in Tag : t.user = user}
IngredientQueryset(user) == {i \in Ingredient : i.user = user}

\* The ids of rows, in an order the ORDER BY allows: key[a] >= key[b] whenever
\* a comes before b; rows with equal keys come in any order.
Ordered(rows, key) ==
    {s \in [1..Cardinality(rows) -> {r.id : r \in rows}] :
        /\ \A i, j \in DOMAIN s : i # j => s[i] # s[j]
        /\ \A i, j \in DOMAIN s :
              i < j => \A a, b \in rows :
                          (a.id = s[i] /\ b.id = s[j]) => key[a] >= key[b]}

ById(rows) == [r \in rows |-> r.id]
ByTagName(rows) == [t \in rows |-> Rank(TagNames, t.name)]
ByIngredientName(rows) == [i \in rows |-> Rank(IngredientNames, i.name)]

\* ------------------------------------------------------ reconciliation
\* Mutant: objects.create(...) where get_or_create(...) stands.
get_or_create_always_creates(rows, seq, user, name) ==
    [raised |-> FALSE,
     rows |-> rows \cup {[id |-> seq, user |-> user, name |-> name]},
     seq |-> seq + 1, id |-> seq]

\* Mutant: the lookup of get_or_create without user=user.
get_or_create_any_user(rows, seq, user, name) ==
    LET found == {t \in rows : t.name = name}
    IN  IF Cardinality(found) > 1
        THEN [raised |-> TRUE, rows |-> rows, seq |-> seq, id |-> 0]
        ELSE IF found = {}
        THEN [raised |-> FALSE,
              rows |-> rows \cup {[id |-> seq, user |-> user, name |-> name]},
              seq |-> seq + 1, id |-> seq]
        ELSE [raised |-> FALSE, rows |-> rows, seq |-> seq,
              id |-> (CHOOSE t \in found : TRUE).id]

\* Model.objects.get_or_create(user=user, name=name) on a catalog table:
\* the one matching row, a new row when none matches, and
\* MultipleObjectsReturned when several do.
get_or_create(rows, seq, user, name) ==
    LET found == {t \in rows : t.user = user /\ t.name = name}
    IN  IF Cardinality(found) > 1
        THEN [raised |-> TRUE, rows |-> rows, seq |-> seq, id |-> 0]
        ELSE IF found = {}
        THEN [raised |-> FALSE,
              rows |-> rows \cup {[id |-> seq, user |-> user, name |-> name]},
              seq |-> seq + 1, id |-> seq]
        ELSE [raised |-> FALSE, rows |-> rows, seq |-> seq,
              id |-> (CHOOSE t \in found : TRUE).id]

\* The loop of _get_or_create_tags / _get_or_create_ingredients over the
\* payload names in order: get_or_create, then instance.<field>.add(obj).
\* An exception leaves the loop with what was written so far.
RECURSIVE Reconcile(_, _, _, _, _, _)
Reconcile(names, user, pk, rows, assoc, seq) ==
    IF names = <<>>
    THEN [raised |-> FALSE, rows |-> rows, assoc |-> assoc, seq |-> seq]
    ELSE LET g == get_or_create(rows, seq, user, Head(names))
         IN  IF g.raised
             THEN [raised |-> TRUE, rows |-> rows, assoc |-> assoc, seq |-> seq]
             ELSE Reconcile(Tail(names), user, pk, g.rows,
                            assoc \cup {<<pk, g.id>>}, g.seq)

get_or_create_tags(tags, user, pk, rows, assoc, seq) ==
    Reconcile(tags, user, pk, rows, assoc, seq)

get_or_create_ingredients(ingredients, user, pk, rows, assoc, seq) ==
    Reconcile(ingredients, user, pk, rows, assoc, seq)

\* instance.tags.clear()
Clear(assoc, pk) == {a \in assoc : a[1] # pk}

\* ---------------------------------------------------------------- Init
\* The two server workers, and a worker between two requests.
Workers == {"w1", "w2"}
NoWork == [pc |-> "idle", action |-> "none", user |-> NoUser, pk |-> 0,
           tags |-> <<>>, ingredients |-> <<>>, obj |-> 0,
           fresh |-> {}, status_code |-> 0]

\* The migrated, empty database and a client that has sent nothing.
Empty ==
    /\ Recipe = {}
    /\ Tag = {}
    /\ Ingredient = {}
    /\ recipe_tags = {}
    /\ recipe_ingredients = {}
    /\ recipeSeq = 1
    /\ tagSeq = 1
    /\ ingredientSeq = 1
    /\ request = Idle
    /\ res = Response(0, <<>>)

\* wait_for_db has run before the server takes requests: one check, passed.
Waited ==
    /\ pc = "done"
    /\ is_db_available = TRUE
    /\ stdout = <<"Waiting for database...", "Database available!">>
    /\ database = "up"
    /\ checks = <<"ok">>

Init ==
    /\ Empty
    /\ workers = [w \in Workers |-> NoWork]
    /\ Waited

\* ------------------------------------------------------ recipe endpoints
\* Mutant: a 'user' key of the payload reaches the validated data and wins.
perform_create_payload_user(user, payload) ==
    [title |-> payload.title, tags |-> payload.tags.names,
     ingredients |-> payload.ingredients.names,
     user |-> IF payload.user # NoUser THEN payload.user ELSE user]

\* serializer.save(user=self.request.user): the validated data holds the
\* serializer's fields only (a 'user' key of the payload is not one of them),
\* and the caller is added as user.
perform_create(user, payload) ==
    [title |-> payload.title, tags |-> payload.tags.names,
     ingredients |-> payload.ingredients.names, user |-> user]

\* RecipeSerializer.create: Recipe.objects.create(**validated_data), then the
\* two reconcile loops; an exception in the first skips the second.
create(validated_data, pk) ==
    LET t == get_or_create_tags(validated_data.tags, validated_data.user, pk,
                                Tag, recipe_tags, tagSeq)
        i == IF t.raised
             THEN [raised |-> TRUE, rows |-> Ingredient,
                   assoc |-> recipe_ingredients, seq |-> ingredientSeq]
             ELSE get_or_create_ingredients(validated_data.ingredients,
                                validated_data.user, pk,
                                Ingredient, recipe_ingredients, ingredientSeq)
    IN  [raised |-> i.raised,
         Recipe |-> Recipe \cup {[id |-> pk, user |-> validated_data.user,
                                  title |-> validated_data.title]},
         Tag |-> t.rows, recipe_tags |-> t.assoc, tagSeq |-> t.seq,
         Ingredient |-> i.rows, recipe_ingredients |-> i.assoc,
         ingredientSeq |-> i.seq]

\* POST /recipes
RecipeCreate(user, payload) ==
    LET pk == recipeSeq
        c == create(perform_create(user, payload), pk)
    IN  /\ request = Idle
        /\ has_permission(user)
        /\ recipeSeq <= MaxRecipes
        /\ c.tagSeq <= MaxTagRows + 1
        /\ c.ingredientSeq <= MaxIngredientRows + 1
        /\ Recipe' = c.Recipe
        /\ recipeSeq' = recipeSeq + 1
        /\ Tag' = c.Tag
        /\ recipe_tags' = c.recipe_tags
        /\ tagSeq' = c.tagSeq
        /\ Ingredient' = c.Ingredient
        /\ recipe_ingredients' = c.recipe_ingredients
        /\ ingredientSeq' = c.ingredientSeq
        /\ request' = Req("create", user, pk, payload)
        /\ UNCHANGED <<workers, command>>
        /\ res' = Response(IF c.raised THEN 500 ELSE 201, <<pk>>)

\* get_object(): the row of the caller's queryset with this pk, or Http404.
\* The set holds the row when there is one and is empty otherwise.
get_object(queryset, pk) == {o \in queryset : o.id = pk}

NotFound(action, user, pk) ==
    /\ request = Idle
    /\ has_permission(user)
    /\ request' = Req(action, user, pk, NoData)
    /\ res' = Response(404, <<>>)
    /\ UNCHANGED <<db, workers, command>>

\* Mutant: validated_data.pop('tags', []) where pop('tags', None) stands, so
\* an absent field clears like an empty list.
UpdateTags_default_empty(tags, user, pk, rows, assoc, seq) ==
    get_or_create_tags(tags.names, user, pk, rows, Clear(assoc, pk), seq)

\* The tags part of RecipeSerializer.update: nothing when the field is absent
\* (tags is None), else instance.tags.clear() and the reconcile loop.
UpdateTags(tags, user, pk, rows, assoc, seq) ==
    IF ~tags.present
    THEN [raised |-> FALSE, rows |-> rows, assoc |-> assoc, seq |-> seq]
    ELSE get_or_create_tags(tags.names, user, pk, rows, Clear(assoc, pk), seq)

\* The setattr loop of RecipeSerializer.update over what is left of the
\* validated data.  'ingredients' is never popped, so when the payload has it
\* setattr(instance, 'ingredients', [...]) assigns to the many-to-many
\* descriptor, which raises TypeError: the association table is not written
\* and instance.save() is not reached.
SetAttrs(instance, payload) ==
    IF payload.ingredients.present
    THEN [raised |-> TRUE, instance |-> instance]
    ELSE [raised |-> FALSE,
          instance |-> IF payload.title # NoTitle
                       THEN [instance EXCEPT !.title = payload.title]
                       ELSE instance]

\* Mutant: the tags branch also runs instance.ingredients.clear().
update_clears_both(instance, payload, user) ==
    LET t == UpdateTags(payload.tags, user, instance.id, Tag, recipe_tags, tagSeq)
        a == IF t.raised
             THEN [raised |-> TRUE, instance |-> instance]
             ELSE SetAttrs(instance, payload)
    IN  [raised |-> a.raised,
         Recipe |-> IF a.raised THEN Recipe
                    ELSE (Recipe \ {instance}) \cup {a.instance},
         Tag |-> t.rows, recipe_tags |-> t.assoc, tagSeq |-> t.seq,
         Ingredient |-> Ingredient,
         recipe_ingredients |-> IF payload.tags.present
                                THEN Clear(recipe_ingredients, instance.id)
                                ELSE recipe_ingredients,
         ingredientSeq |-> ingredientSeq]

\* RecipeSerializer.update: the tags part, the setattr loop, instance.save().
\* An exception in either of the first two ends the request before save().
update(instance, payload, user) ==
    LET t == UpdateTags(payload.tags, user, instance.id, Tag, recipe_tags, tagSeq)
        a == IF t.raised
             THEN [raised |-> TRUE, instance |-> instance]
             ELSE SetAttrs(instance, payload)
    IN  [raised |-> a.raised,
         Recipe |-> IF a.raised THEN Recipe
                    ELSE (Recipe \ {instance}) \cup {a.instance},
         Tag |-> t.rows, recipe_tags |-> t.assoc, tagSeq |-> t.seq,
         Ingredient |-> Ingredient, recipe_ingredients |-> recipe_ingredients,
         ingredientSeq |-> ingredientSeq]

\* PUT/PATCH /recipes/{pk}
RecipeUpdate(user, pk, payload) ==
    \E instance \in get_object(RecipeQueryset(user), pk) :
        LET u == update(instance, payload, user)
        IN  /\ request = Idle
            /\ has_permission(user)
            /\ u.tagSeq <= MaxTagRows + 1
            /\ u.ingredientSeq <= MaxIngredientRows + 1
            /\ Recipe' = u.Recipe
            /\ Tag' = u.Tag
            /\ recipe_tags' = u.recipe_tags
            /\ tagSeq' = u.tagSeq
            /\ Ingredient' = u.Ingredient
            /\ recipe_ingredients' = u.recipe_ingredients
            /\ ingredientSeq' = u.ingredientSeq
            /\ UNCHANGED <<recipeSeq, workers, command>>
            /\ request' = Req("update", user, pk, payload)
            /\ res' = Response(IF u.raised THEN 500 ELSE 200, <<pk>>)

RecipeUpdateNotFound(user, pk) ==
    /\ get_object(RecipeQueryset(user), pk) = {}
    /\ NotFound("update", user, pk)

\* GET /recipes/{pk}
RecipeRetrieve(user, pk) ==
    /\ request = Idle
    /\ has_permission(user)
    /\ request' = Req("retrieve", user, pk, NoData)
    /\ res' = IF get_object(RecipeQueryset(user), pk) = {}
              THEN Response(404, <<>>) ELSE Response(200, <<pk>>)
    /\ UNCHANGED <<db, workers, command>>

\* DELETE /recipes/{pk}: the row and its rows of both association tables.
RecipeDestroy(user, pk) ==
    \E instance \in get_object(RecipeQueryset(user), pk) :
        /\ request = Idle
        /\ has_permission(user)
        /\ Recipe' = Recipe \ {instance}
        /\ recipe_tags' = Clear(recipe_tags, pk)
        /\ recipe_ingredients' = Clear(recipe_ingredients, pk)
        /\ UNCHANGED <<Tag, Ingredient, recipeSeq, tagSeq, ingredientSeq,
                       workers, command>>
        /\ request' = Req("destroy", user, pk, NoData)
        /\ res' = Response(204, <<>>)

RecipeDestroyNotFound(user, pk) ==
    /\ get_object(RecipeQueryset(user), pk) = {}
    /\ NotFound("destroy", user, pk)

\* GET /recipes: the caller's recipes, order_by('-id').
RecipeList(user) ==
    \E data \in Ordered(RecipeQueryset(user), ById(RecipeQueryset(user))) :
        /\ request = Idle
        /\ has_permission(user)
        /\ request' = Req("list", user, 0, NoData)
        /\ res' = Response(200, data)
        /\ UNCHANGED <<db, workers, command>>

\* --------------------------------------------------------- tag endpoints
\* The rows of Recipe.tags that name a deleted tag go with it.
DropTag(assoc, pk) == {a \in assoc : a[2] # pk}

\* GET /tags: the caller's tags, order_by('-name').
TagList(user) ==
    \E data \in Ordered(TagQueryset(user), ByTagName(TagQueryset(user))) :
        /\ request = Idle
        /\ has_permission(user)
        /\ request' = Req("tag-list", user, 0, NoData)
        /\ res' = Response(200, data)
        /\ UNCHANGED <<db, workers, command>>

\* PUT/PATCH /tags/{pk}: TagSerializer writes name; no validator compares it
\* with the caller's other tags.
TagUpdate(user, pk, name) ==
    \E instance \in get_object(TagQueryset(user), pk) :
        /\ request = Idle
        /\ has_permission(user)
        /\ Tag' = (Tag \ {instance}) \cup {[instance EXCEPT !.name = name]}
        /\ UNCHANGED <<Recipe, Ingredient, recipe_tags, recipe_ingredients,
                       recipeSeq, tagSeq, ingredientSeq, workers, command>>
        /\ request' = Req("tag-update", user, pk, [name |-> name])
        /\ res' = Response(200, <<pk>>)

TagUpdateNotFound(user, pk) ==
    /\ get_object(TagQueryset(user), pk) = {}
    /\ NotFound("tag-update", user, pk)

\* Mutant: the Tag row is deleted and the rows of Recipe.tags that name it
\* are left behind.
TagDestroy_keeps_associations(user, pk) ==
    \E instance \in get_object(TagQueryset(user), pk) :
        /\ request = Idle
        /\ has_permission(user)
        /\ Tag' = Tag \ {instance}
        /\ UNCHANGED <<Recipe, Ingredient, recipe_tags, recipe_ingredients,
                       recipeSeq, tagSeq, ingredientSeq, workers, command>>
        /\ request' = Req("tag-destroy", user, pk, NoData)
        /\ res' = Response(204, <<>>)

\* DELETE /tags/{pk}
TagDestroy(user, pk) ==
    \E instance \in get_object(TagQueryset(user), pk) :
        /\ request = Idle
        /\ has_permission(user)
        /\ Tag' = Tag \ {instance}
        /\ recipe_tags' = DropTag(recipe_tags, pk)
        /\ UNCHANGED <<Recipe, Ingredient, recipe_ingredients,
                       recipeSeq, tagSeq, ingredientSeq, workers, command>>
        /\ request' = Req("tag-destroy", user, pk, NoData)
        /\ res' = Response(204, <<>>)

TagDestroyNotFound(user, pk) ==
    /\ get_object(TagQueryset(user), pk) = {}
    /\ NotFound("tag-destroy", user, pk)

\* -------------------------------------------------- ingredient endpoint
\* GET /ingredients: the caller's ingredients, order_by('-name').
IngredientList(user) ==
    \E data \in Ordered(IngredientQueryset(user),
                       ByIngredientName(IngredientQueryset(user))) :
        /\ request = Idle
        /\ has_permission(user)
        /\ request' = Req("ingredient-list", user, 0, NoData)
        /\ res' = Response(200, data)
        /\ UNCHANGED <<db, workers, command>>

\* ------------------------------------------------------ public requests
\* The payloads of the requests sent with and without credentials.
PublicCreatePayloads ==
    {[title |-> "Test Recipe", tags |-> f[1], ingredients |-> f[2],
      user |-> NoUser] :
         f \in {<<Absent, Absent>>, <<Given(<<"Veg">>), Given(<<"Salt">>)>>}}
PublicUpdatePayloads ==
    {[title |-> "Updated Title", tags |-> Absent, ingredients |-> Absent,
      user |-> NoUser],
     [title |-> NoTitle, tags |-> Given(<<"NonVeg">>), ingredients |-> Absent,
      user |-> NoUser]}

\* The requests of a client without credentials: PublicRecipeApiTests and
\* PublicTagAPITests send the two list requests; here every route is called.
PublicRequests ==
    {Req(a, AnonymousUser, 0, NoData) : a \in {"list", "tag-list", "ingredient-list"}}
    \cup {Req("create", AnonymousUser, 0, p) : p \in PublicCreatePayloads}
    \cup {Req(a, AnonymousUser, pk, NoData) :
              a \in {"retrieve", "destroy"}, pk \in 1..MaxRecipes}
    \cup {Req("update", AnonymousUser, pk, p) :
              pk \in 1..MaxRecipes, p \in PublicUpdatePayloads}
    \cup {Req("tag-destroy", AnonymousUser, pk, NoData) : pk \in 1..MaxTagRows}
    \cup {Req("tag-update", AnonymousUser, pk, [name |-> n]) :
              pk \in 1..MaxTagRows, n \in Range(TagNames)}

\* APIView.initial() of a request that fails the permission check: 401
\* (NotAuthenticated, TokenAuthentication sends WWW-Authenticate), before the
\* view's handler runs.
PermissionDenied(action, user, pk, data) ==
    /\ request = Idle
    /\ ~has_permission(user)
    /\ request' = Req(action, user, pk, data)
    /\ res' = Response(401, <<>>)
    /\ UNCHANGED <<db, workers, command>>

\* The response reaches the client, which may then send its next request.
Done ==
    /\ request # Idle
    /\ request' = Idle
    /\ res' = Response(0, <<>>)
    /\ UNCHANGED <<db, workers, command>>

\* ---------------------------------------------------------------- Next
RecipePks == 1..MaxRecipes
TagPks == 1..MaxTagRows

Next ==
    \/ \E user \in Users, payload \in CreatePayloads : RecipeCreate(user, payload)
    \/ \E user \in Users, pk \in RecipePks, payload \in UpdatePayloads :
          RecipeUpdate(user, pk, payload)
    \/ \E user \in Users, pk \in RecipePks : RecipeUpdateNotFound(user, pk)
    \/ \E user \in Users, pk \in RecipePks : RecipeRetrieve(user, pk)
    \/ \E user \in Users, pk \in RecipePks : RecipeDestroy(user, pk)
    \/ \E user \in Users, pk \in RecipePks : RecipeDestroyNotFound(user, pk)
    \/ \E user \in Users : RecipeList(user)
    \/ \E user \in Users : TagList(user)
    \/ \E user \in Users, pk \in TagPks, name \in Range(TagNames) :
          TagUpdate(user, pk, name)
    \/ \E user \in Users, pk \in TagPks : TagUpdateNotFound(user, pk)
    \/ \E user \in Users, pk \in TagPks : TagDestroy(user, pk)
    \/ \E user \in Users, pk \in TagPks : TagDestroyNotFound(user, pk)
    \/ \E user \in Users : IngredientList(user)
    \/ Done

Spec == Init /\ [][Next]_vars

\* Recipe create and recipe update requests only (with the responses
\* returning): no tag endpoint and no recipe delete.
NextRecipes ==
    \/ \E user \in Users, payload \in CreatePayloads : RecipeCreate(user, payload)
    \/ \E user \in Users, pk \in RecipePks, payload \in UpdatePayloads :
          RecipeUpdate(user, pk, payload)
    \/ Done

SpecRecipes == Init /\ [][NextRecipes]_vars

\* Every route, called with a token of a user or with none.
NextPublic ==
    \/ \E user \in Callers, payload \in PublicCreatePayloads :
          RecipeCreate(user, payload)
    \/ \E user \in Callers, pk \in RecipePks, payload \in PublicUpdatePayloads :
          RecipeUpdate(user, pk, payload)
    \/ \E user \in Callers, pk \in RecipePks : RecipeUpdateNotFound(user, pk)
    \/ \E user \in Callers, pk \in RecipePks : RecipeRetrieve(user, pk)
    \/ \E user \in Callers, pk \in RecipePks : RecipeDestroy(user, pk)
    \/ \E user \in Callers, pk \in RecipePks : RecipeDestroyNotFound(user, pk)
    \/ \E user \in Callers : RecipeList(user)
    \/ \E user \in Callers : TagList(user)
    \/ \E user \in Callers, pk \in TagPks, name \in Range(TagNames) :
          TagUpdate(user, pk, name)
    \/ \E user \in Callers, pk \in TagPks : TagUpdateNotFound(user, pk)
    \/ \E user \in Callers, pk \in TagPks : TagDestroy(user, pk)
    \/ \E user \in Callers, pk \in TagPks : TagDestroyNotFound(user, pk)
    \/ \E user \in Callers : IngredientList(user)
    \/ \E q \in PublicRequests : PermissionDenied(q.action, q.user, q.pk, q.data)
    \/ Done

SpecPublic == Init /\ [][NextPublic]_vars

\* ------------------------------------------------------------ wait_for_db
\* Command.handle of core/management/commands/wait_for_db.py, statement by
\* statement, beside a database server that starts, stops and restarts on
\* its own.

\* The server: not running, accepting no connection yet, or serving.
DatabaseStates == {"down", "starting", "up"}

\* self.check(databases=['default']): passes on a serving database; raises
\* psycopg2's OperationalError when no server answers, and Django's while the
\* server does not take connections yet.
check(state) ==
    IF state = "up" THEN "ok"
    ELSE IF state = "down" THEN "Psycopg2OperationalError"
    ELSE "OperationalError"

\* What the command does not touch: the tables and the API's requests.
api == <<db, request, res, workers>>

InitWait ==
    /\ Empty
    /\ workers = [w \in Workers |-> NoWork]
    /\ pc = "start"
    /\ is_db_available = FALSE
    /\ stdout = <<>>
    /\ database \in DatabaseStates
    /\ checks = <<>>

\* self.stdout.write('Waiting for database...'); is_db_available = False
Start ==
    /\ pc = "start"
    /\ stdout' = Append(stdout, "Waiting for database...")
    /\ is_db_available' = FALSE
    /\ pc' = "while"
    /\ UNCHANGED <<database, checks, api>>

\* while not is_db_available:
While ==
    /\ pc = "while"
    /\ pc' = IF is_db_available THEN "success" ELSE "try"
    /\ UNCHANGED <<is_db_available, stdout, database, checks, api>>

\* Mutant: is_db_available = True assigned before the check is called.
Try_flag_before_check ==
    LET outcome == check(database)
    IN  /\ pc = "try"
        /\ outcome = "ok" \/ Len(checks) < MaxChecks
        /\ checks' = Append(checks, outcome)
        /\ is_db_available' = TRUE
        /\ pc' = IF outcome = "ok" THEN "while" ELSE "except"
        /\ UNCHANGED <<stdout, database, api>>

\* try: self.check(databases=['default']); is_db_available = True
\* except (OperationalError, Psycopg2OperationalError): to the handler, the
\* assignment skipped.
Try ==
    LET outcome == check(database)
    IN  /\ pc = "try"
        /\ outcome = "ok" \/ Len(checks) < MaxChecks
        /\ checks' = Append(checks, outcome)
        /\ is_db_available' = (outcome = "ok")
        /\ pc' = IF outcome = "ok" THEN "while" ELSE "except"
        /\ UNCHANGED <<stdout, database, api>>

\* self.stdout.write('Database unavailable, sleeping for 1s...')
Except ==
    /\ pc = "except"
    /\ stdout' = Append(stdout, "Database unavailable, sleeping for 1s...")
    /\ pc' = "sleep"
    /\ UNCHANGED <<is_db_available, database, checks, api>>

\* time.sleep(1)
Sleep ==
    /\ pc = "sleep"
    /\ pc' = "while"
    /\ UNCHANGED <<is_db_available, stdout, database, checks, api>>

\* self.stdout.write(self.style.SUCCESS('Database available!'))
Success ==
    /\ pc = "success"
    /\ stdout' = Append(stdout, "Database available!")
    /\ pc' = "done"
    /\ UNCHANGED <<is_db_available, database, checks, api>>

\* The statements of handle().
handle == Start \/ While \/ Try \/ Except \/ Sleep \/ Success

\* The server changes state while the command runs.
DatabaseChange ==
    /\ pc # "done"
    /\ database' \in DatabaseStates \ {database}
    /\ UNCHANGED <<pc, is_db_available, stdout, checks, api>>

NextWait == handle \/ DatabaseChange

\* The command's process keeps running: a statement it is at is executed.
SpecWait == InitWait /\ [][NextWait]_vars /\ WF_vars(handle)

\* ---------------------------------------------------- derived sets
\* The catalog ids a recipe is associated with in an association table.
Of(assoc, pk) == {a[2] : a \in {x \in assoc : x[1] = pk}}
\* The ids of a user's catalog rows that carry one of the names.
Named(rows, user, names) ==
    {t.id : t \in {r \in rows : r.user = user /\ r.name \in Range(names)}}
\* The names of the list that the user has no catalog row for.
Missing(rows, user, names) ==
    {n \in Range(names) : ~\E r \in rows : r.user = user /\ r.name = n}
Owned(rows, user) == {r \in rows : r.user = user}

\* ---------------------------------------------------- concurrent requests
\* Two server workers answer recipe create and update requests side by side.
\* Each ORM statement of the serializer is one step (autocommit, no lock):
\* get_or_create is its lookup, then, when nothing matched, its insert.

\* The payloads the two clients send.
ConcurrentCreatePayloads ==
    {[title |-> "Test Recipe", tags |-> Given(t), ingredients |-> i,
      user |-> NoUser] :
         t \in {<<"Veg">>, <<"Veg", "NonVeg">>}, i \in {Absent, Given(<<"Salt">>)}}
ConcurrentUpdatePayloads ==
    {[title |-> NoTitle, tags |-> Given(t), ingredients |-> Absent,
      user |-> NoUser] : t \in {<<>>, <<"Veg">>, <<"NonVeg">>}}

\* The lookup of get_or_create: the rows that match (user, name).
objects_get(rows, user, name) == {t \in rows : t.user = user /\ t.name = name}
\* The insert of get_or_create.
objects_create(seq, user, name) == [id |-> seq, user |-> user, name |-> name]

\* The worker after it dealt with the name at the head of its list: the next
\* name, else the setattr loop and save() of update, else the response of
\* create.
Popped(w) ==
    LET tags == IF w.tags # <<>> THEN Tail(w.tags) ELSE w.tags
        ingredients == IF w.tags # <<>> THEN w.ingredients ELSE Tail(w.ingredients)
    IN  [w EXCEPT !.tags = tags, !.ingredients = ingredients, !.obj = 0,
                  !.pc = IF tags # <<>> \/ ingredients # <<>> THEN "get"
                         ELSE IF w.action = "update" THEN "save" ELSE "done",
                  !.status_code = IF tags # <<>> \/ ingredients # <<>> THEN 0
                                  ELSE IF w.action = "update" THEN 0 ELSE 201]

\* POST /recipes reaches a worker: perform_create, Recipe.objects.create.
WorkerCreate(w, user, payload) ==
    LET validated_data == perform_create(user, payload)
        pk == recipeSeq
        names == validated_data.tags \o validated_data.ingredients
    IN  /\ workers[w].pc = "idle"
        /\ has_permission(user)
        /\ recipeSeq <= MaxRecipes
        /\ Recipe' = Recipe \cup {[id |-> pk, user |-> user,
                                   title |-> validated_data.title]}
        /\ recipeSeq' = recipeSeq + 1
        /\ workers' = [workers EXCEPT ![w] =
              [pc |-> IF names = <<>> THEN "done" ELSE "get",
               action |-> "create", user |-> user, pk |-> pk,
               tags |-> validated_data.tags,
               ingredients |-> validated_data.ingredients, obj |-> 0,
               fresh |-> Missing(Tag, user, validated_data.tags)
                         \cup Missing(Ingredient, user, validated_data.ingredients),
               status_code |-> IF names = <<>> THEN 201 ELSE 0]]
        /\ UNCHANGED <<Tag, Ingredient, recipe_tags, recipe_ingredients,
                       tagSeq, ingredientSeq, request, res, command>>

\* PATCH /recipes/{pk} with a tags field reaches a worker: get_object.
WorkerUpdate(w, user, pk, payload) ==
    \E instance \in get_object(RecipeQueryset(user), pk) :
        /\ workers[w].pc = "idle"
        /\ has_permission(user)
        /\ payload.tags.present
        /\ workers' = [workers EXCEPT ![w] =
              [pc |-> "clear", action |-> "update", user |-> user, pk |-> pk,
               tags |-> payload.tags.names, ingredients |-> <<>>, obj |-> 0,
               fresh |-> Missing(Tag, user, payload.tags.names),
               status_code |-> 0]]
        /\ UNCHANGED <<db, request, res, command>>

\* instance.tags.clear()
WorkerClear(w) ==
    /\ workers[w].pc = "clear"
    /\ recipe_tags' = Clear(recipe_tags, workers[w].pk)
    /\ workers' = [workers EXCEPT ![w].pc =
                      IF workers[w].tags # <<>> THEN "get" ELSE "save"]
    /\ UNCHANGED <<Recipe, Tag, Ingredient, recipe_ingredients, recipeSeq,
                   tagSeq, ingredientSeq, request, res, command>>

\* The lookup of get_or_create for the name at the head of the list: the row
\* when one matches, MultipleObjectsReturned when several do, and on to the
\* insert when none does.
WorkerGet(w) ==
    LET q == workers[w]
        found == IF q.tags # <<>> THEN objects_get(Tag, q.user, Head(q.tags))
                 ELSE objects_get(Ingredient, q.user, Head(q.ingredients))
    IN  /\ q.pc = "get"
        /\ workers' = [workers EXCEPT ![w] =
              IF Cardinality(found) > 1
              THEN [q EXCEPT !.pc = "done", !.status_code = 500]
              ELSE IF found = {} THEN [q EXCEPT !.pc = "insert"]
              ELSE [q EXCEPT !.pc = "add", !.obj = (CHOOSE t \in found : TRUE).id]]
        /\ UNCHANGED <<db, request, res, command>>

\* The insert of get_or_create: nothing matched when this worker looked.
WorkerInsert(w) ==
    LET q == workers[w]
    IN  /\ q.pc = "insert"
        /\ IF q.tags # <<>>
           THEN /\ tagSeq <= MaxTagRows
                /\ Tag' = Tag \cup {objects_create(tagSeq, q.user, Head(q.tags))}
                /\ tagSeq' = tagSeq + 1
                /\ workers' = [workers EXCEPT ![w] =
                                  [q EXCEPT !.pc = "add", !.obj = tagSeq]]
                /\ UNCHANGED <<Ingredient, ingredientSeq>>
           ELSE /\ ingredientSeq <= MaxIngredientRows
                /\ Ingredient' = Ingredient \cup
                      {objects_create(ingredientSeq, q.user, Head(q.ingredients))}
                /\ ingredientSeq' = ingredientSeq + 1
                /\ workers' = [workers EXCEPT ![w] =
                                  [q EXCEPT !.pc = "add", !.obj = ingredientSeq]]
                /\ UNCHANGED <<Tag, tagSeq>>
        /\ UNCHANGED <<Recipe, recipe_tags, recipe_ingredients, recipeSeq,
                       request, res, command>>

\* recipe.tags.add(tag_obj) / recipe.ingredients.add(ingredient_obj)
WorkerAdd(w) ==
    LET q == workers[w]
    IN  /\ q.pc = "add"
        /\ IF q.tags # <<>>
           THEN /\ recipe_tags' = recipe_tags \cup {<<q.pk, q.obj>>}
                /\ UNCHANGED recipe_ingredients
           ELSE /\ recipe_ingredients' = recipe_ingredients \cup {<<q.pk, q.obj>>}
                /\ UNCHANGED recipe_tags
        /\ workers' = [workers EXCEPT ![w] = Popped(q)]
        /\ UNCHANGED <<Recipe, Tag, Ingredient, recipeSeq, tagSeq,
                       ingredientSeq, request, res, command>>

\* The setattr loop and instance.save() of update; these payloads carry the
\* tags field alone, so no attribute is set and save() rewrites the row.
WorkerSave(w) ==
    /\ workers[w].pc = "save"
    /\ workers' = [workers EXCEPT ![w].pc = "done", ![w].status_code = 200]
    /\ UNCHANGED <<db, request, res, command>>

\* The response is sent; the worker takes the next request.
WorkerRespond(w) ==
    /\ workers[w].pc = "done"
    /\ workers' = [workers EXCEPT ![w] = NoWork]
    /\ UNCHANGED <<db, request, res, command>>

NextConcurrent ==
    \/ \E w \in Workers, user \in Users, payload \in ConcurrentCreatePayloads :
          WorkerCreate(w, user, payload)
    \/ \E w \in Workers, user \in Users, pk \in RecipePks,
          payload \in ConcurrentUpdatePayloads : WorkerUpdate(w, user, pk, payload)
    \/ \E w \in Workers : WorkerClear(w)
    \/ \E w \in Workers : WorkerGet(w)
    \/ \E w \in Workers : WorkerInsert(w)
    \/ \E w \in Workers : WorkerAdd(w)
    \/ \E w \in Workers : WorkerSave(w)
    \/ \E w \in Workers : WorkerRespond(w)

SpecConcurrent == Init /\ [][NextConcurrent]_vars

\* ------------------------------------------------------------ properties
\* C1: a recipe update whose payload has the tags field leaves the recipe
\* associated with exactly the caller's Tag rows for the payload names (none
\* for an empty list), and deletes no Tag row.
C1_TagsReplaced ==
    [][(request'.action = "update" /\ request'.data.tags.present)
        => /\ Of(recipe_tags', request'.pk)
                = Named(Tag', request'.user, request'.data.tags.names)
           /\ Tag \subseteq Tag']_vars

\* C2: a recipe update whose payload has the ingredients field answers 200
\* and leaves the recipe associated with exactly the caller's Ingredient rows
\* for the payload names, a missing name created, no Ingredient row deleted.
C2_IngredientsReplaced ==
    [][(request'.action = "update" /\ request'.data.ingredients.present)
        => /\ res'.status_code = 200
           /\ Of(recipe_ingredients', request'.pk)
                = Named(Ingredient', request'.user, request'.data.ingredients.names)
           /\ Missing(Ingredient', request'.user,
                      request'.data.ingredients.names) = {}
           /\ Ingredient \subseteq Ingredient']_vars

\* C3: a recipe update whose payload has no tags field leaves the recipe's
\* tag associations as they were, whatever the other fields are.
C3_TagsUntouched ==
    [][(request'.action = "update" /\ ~request'.data.tags.present)
        => Of(recipe_tags', request'.pk) = Of(recipe_tags, request'.pk)]_vars

\* An update without tags but with ingredients, on a recipe that has tags.
C3_Witness ==
    /\ request.action = "update"
    /\ ~request.data.tags.present
    /\ request.data.ingredients.present
    /\ request.data.ingredients.names # <<>>
    /\ Of(recipe_tags, request.pk) # {}

\* C4: a recipe update whose payload has no ingredients field leaves the
\* recipe's ingredient associations as they were, also when it replaces or
\* clears the tags.
C4_IngredientsUntouched ==
    [][(request'.action = "update" /\ ~request'.data.ingredients.present)
        => Of(recipe_ingredients', request'.pk)
             = Of(recipe_ingredients, request'.pk)]_vars

\* An update that replaced the tags of a recipe that has ingredients.
C4_Witness ==
    /\ request.action = "update"
    /\ res.status_code = 200
    /\ ~request.data.ingredients.present
    /\ request.data.tags.present
    /\ request.data.tags.names # <<>>
    /\ Of(recipe_tags, request.pk) # {}
    /\ Of(recipe_ingredients, request.pk) # {}

\* C5: a recipe create answers 201, associates the new recipe with exactly
\* one catalog row of the caller per distinct payload name, and adds to the
\* caller's catalog exactly one row per distinct name the caller did not own.
C5_CreateReconciles ==
    [][request'.action = "create"
        => LET u == request'.user
               pk == request'.pk
               tags == request'.data.tags.names
               ingredients == request'.data.ingredients.names
           IN  /\ res'.status_code = 201
               /\ Of(recipe_tags', pk) = Named(Tag', u, tags)
               /\ Cardinality(Of(recipe_tags', pk)) = Cardinality(Range(tags))
               /\ Cardinality(Owned(Tag', u))
                    = Cardinality(Owned(Tag, u))
                      + Cardinality(Missing(Tag, u, tags))
               /\ Of(recipe_ingredients', pk) = Named(Ingredient', u, ingredients)
               /\ Cardinality(Of(recipe_ingredients', pk))
                    = Cardinality(Range(ingredients))
               /\ Cardinality(Owned(Ingredient', u))
                    = Cardinality(Owned(Ingredient, u))
                      + Cardinality(Missing(Ingredient, u, ingredients))]_vars

\* C6: under recipe create and recipe update requests alone, a user has at
\* most one Tag row per name, and a recipe whose payload named a tag is
\* associated with that one row, whichever recipes named it before.
C6_OneRowPerName ==
    /\ \A u \in Users, n \in Range(TagNames) :
          Cardinality({t \in Tag : t.user = u /\ t.name = n}) <= 1
    /\ (request.action \in {"create", "update"} /\ request.data.tags.present)
        => \A n \in Range(request.data.tags.names) :
              \E t \in Tag :
                 /\ {x \in Tag : x.user = request.user /\ x.name = n} = {t}
                 /\ <<request.pk, t.id>> \in recipe_tags

\* Two recipes of one user are associated with the same row of a named tag.
C6_Witness ==
    /\ request.action \in {"create", "update"}
    /\ request.data.tags.present
    /\ \E r \in Recipe, t \in Tag :
          /\ r.id # request.pk
          /\ r.user = request.user
          /\ t.name \in Range(request.data.tags.names)
          /\ <<r.id, t.id>> \in recipe_tags
          /\ <<request.pk, t.id>> \in recipe_tags

\* C7: every Tag and every Ingredient associated with a Recipe has the owner
\* of that Recipe.
C7_SameOwner ==
    /\ \A a \in recipe_tags : \A r \in Recipe, t \in Tag :
          (r.id = a[1] /\ t.id = a[2]) => t.user = r.user
    /\ \A a \in recipe_ingredients : \A r \in Recipe, i \in Ingredient :
          (r.id = a[1] /\ i.id = a[2]) => i.user = r.user

\* A payload names a tag another user owns, and the recipe is associated
\* with a row of that name.
C7_Witness ==
    /\ request.action \in {"create", "update"}
    /\ request.data.tags.present
    /\ \E t \in Tag, o \in Tag :
          /\ o.user # request.user
          /\ o.name = t.name
          /\ t.name \in Range(request.data.tags.names)
          /\ <<request.pk, t.id>> \in recipe_tags
          /\ \E a \in recipe_tags : a[2] = o.id

\* C8: a list response holds exactly the caller's own records, and none of
\* another user.
C8_ListOwnOnly ==
    /\ request.action = "list"
        => /\ Range(res.data) = {r.id : r \in Owned(Recipe, request.user)}
           /\ \A r \in Recipe : r.user # request.user => r.id \notin Range(res.data)
    /\ request.action = "tag-list"
        => /\ Range(res.data) = {t.id : t \in Owned(Tag, request.user)}
           /\ \A t \in Tag : t.user # request.user => t.id \notin Range(res.data)
    /\ request.action = "ingredient-list"
        => /\ Range(res.data) = {i.id : i \in Owned(Ingredient, request.user)}
           /\ \A i \in Ingredient :
                 i.user # request.user => i.id \notin Range(res.data)

\* Both users own a tag of the same name, and one of them lists the tags.
C8_Witness ==
    /\ request.action = "tag-list"
    /\ res.data # <<>>
    /\ \E t \in Tag, o \in Tag :
          t.user = request.user /\ o.user # request.user /\ o.name = t.name

\* C9: a retrieve, update or delete of a recipe or tag that the caller does
\* not own, or that does not exist, answers 404 and changes no stored record.
C9_NotFound ==
    [][LET q == request'
       IN  \/ /\ q.action \in {"retrieve", "update", "destroy"}
              /\ ~\E r \in Recipe : r.id = q.pk /\ r.user = q.user
           \/ /\ q.action \in {"tag-update", "tag-destroy"}
              /\ ~\E t \in Tag : t.id = q.pk /\ t.user = q.user
       => /\ res'.status_code = 404
          /\ db' = db]_vars

\* An update addressed a recipe of another user and was answered 404.
C9_Witness ==
    /\ request.action = "update"
    /\ res.status_code = 404
    /\ \E r \in Recipe : r.id = request.pk /\ r.user # request.user
    /\ \E a \in recipe_tags : a[1] = request.pk

\* C10: a recipe create stores the caller as owner of the new recipe whatever
\* the payload holds, and no request changes the owner of a stored recipe.
C10_OwnerIsCaller ==
    [][/\ request'.action = "create"
          => \E r \in Recipe' : /\ r.id = request'.pk
                                 /\ r.user = request'.user
                                 /\ \A x \in Recipe' : x.id = r.id => x = r
       /\ \A r \in Recipe, x \in Recipe' : r.id = x.id => r.user = x.user]_vars

\* A create whose payload carried another account as 'user'.
C10_Witness ==
    /\ request.action = "create"
    /\ request.data.user \in Users
    /\ request.data.user # request.user
    /\ \E r \in Recipe : r.id = request.pk /\ r.user = request.user

\* C11: a recipe create or update that fails (500) leaves the recipe of the
\* request, its tag set and its ingredient set as they were before the
\* request: no row of a failed create, no cleared or partly rebuilt tag set.
C11_AllOrNothing ==
    [][(request'.action \in {"create", "update"} /\ res'.status_code = 500)
        => LET pk == request'.pk
           IN  /\ {r \in Recipe' : r.id = pk} = {r \in Recipe : r.id = pk}
               /\ Of(recipe_tags', pk) = Of(recipe_tags, pk)
               /\ Of(recipe_ingredients', pk)
                    = Of(recipe_ingredients, pk)]_vars

\* C12: a request without an authenticated caller, to any recipe, tag or
\* ingredient route, is answered 401 with no record in the response, and
\* changes no stored record.
C12_Unauthenticated ==
    [][request'.user = AnonymousUser
        => /\ res'.status_code = 401
           /\ res'.data = <<>>
           /\ db' = db]_vars

\* A request without credentials addressed a stored recipe that has tags.
C12_Witness ==
    /\ request.user = AnonymousUser
    /\ request.action \in {"update", "destroy"}
    /\ res.status_code = 401
    /\ \E r \in Recipe : r.id = request.pk
    /\ Of(recipe_tags, request.pk) # {}

\* C13: a tag delete removes that Tag row and its association from every
\* recipe, and leaves the recipes, their other tag associations, their
\* ingredient associations and the other Tag rows as they were; and after
\* every step each tag associated with a recipe is an existing Tag row.
C13_TagDeleteDrops ==
    [][/\ (request'.action = "tag-destroy" /\ res'.status_code = 204)
          => LET pk == request'.pk
             IN  /\ Tag' = {t \in Tag : t.id # pk}
                 /\ \E t \in Tag : t.id = pk
                 /\ recipe_tags' = {a \in recipe_tags : a[2] # pk}
                 /\ Recipe' = Recipe
                 /\ recipe_ingredients' = recipe_ingredients
                 /\ Ingredient' = Ingredient
       /\ \A a \in recipe_tags' : \E t \in Tag' : t.id = a[2]]_vars

\* A tag was deleted while two recipes are stored, one of them still
\* associated with another tag and with an ingredient.
C13_Witness ==
    /\ request.action = "tag-destroy"
    /\ res.status_code = 204
    /\ Cardinality(Recipe) = 2
    /\ \E r \in Recipe :
          /\ r.user = request.user
          /\ Of(recipe_tags, r.id) # {}
          /\ Of(recipe_ingredients, r.id) # {}

\* C14: in every state the API operations reach (recipe create and update,
\* tag rename and delete, recipe delete), no two Tag rows of one owner have
\* the same name.
C14_UniqueTagNames ==
    \A t1 \in Tag, t2 \in Tag :
        (t1.user = t2.user /\ t1.name = t2.name) => t1.id = t2.id

\* C15: once two requests of one user for two recipes have both finished,
\* having both named a tag (or ingredient) the user did not own when they
\* began, exactly one catalog row of that user has the name, and both
\* recipes are associated with it.
C15_OneRowAfterRace ==
    \A w1 \in Workers, w2 \in Workers :
        LET a == workers[w1]
            b == workers[w2]
        IN  (/\ w1 # w2
             /\ a.pc = "done" /\ b.pc = "done"
             /\ a.user = b.user
             /\ a.pk # b.pk)
            => \A n \in a.fresh \cap b.fresh :
                 LET rows == IF n \in Range(TagNames) THEN Tag ELSE Ingredient
                     assoc == IF n \in Range(TagNames) THEN recipe_tags
                              ELSE recipe_ingredients
                 IN  \E t \in rows :
                        /\ objects_get(rows, a.user, n) = {t}
                        /\ <<a.pk, t.id>> \in assoc
                        /\ <<b.pk, t.id>> \in assoc

\* C16: wait_for_db has written 'Database available!' only when its last
\* check passed (never while every check so far failed), it goes back to
\* the check after every operational error, it is done only with
\* is_db_available set, and if the database is eventually up for good the
\* command eventually is done.
C16_WaitForDb ==
    /\ []("Database available!" \in Range(stdout)
            => (checks # <<>> /\ checks[Len(checks)] = "ok"))
    /\ [](pc = "done" => (is_db_available /\ "ok" \in Range(checks)))
    /\ [](\A i \in DOMAIN checks : i < Len(checks) => checks[i] # "ok")
    /\ ((pc = "except") ~> (pc = "try"))
    /\ (<>[](database = "up") => <>(pc = "done"))

\* The command is done after a check failed with each of the two errors
\* and a later one passed.
C16_Witness ==
    /\ pc = "done"
    /\ "OperationalError" \in Range(checks)
    /\ "Psycopg2OperationalError" \in Range(checks)
    /\ checks[Len(checks)] = "ok"
    /\ stdout[Len(stdout)] = "Database available!"
    /\ Len(stdout) = Len(checks) + 1
====
